---- MODULE Spec2Model ----
(***************************************************************************)
(* Brewery medallion pipeline (bronze -> silver -> gold -> quality gate).   *)
(*                                                                         *)
(*   src/src/bronze/ingest_api.py   fetch_breweries, fetch_all_breweries,  *)
(*                                  save_to_bronze, ingest_breweries       *)
(*   src/src/silver/transform.py    load_latest_bronze,                    *)
(*                                  clean_and_transform, save_to_silver,   *)
(*                                  transform_breweries                    *)
(*   src/aggregate.py               load_silver, aggregate_breweries,      *)
(*                                  save_to_gold, aggregate_gold           *)
(*   src/dags/brewery_pipeline.py   the four DAG tasks, run_quality_check  *)
(*                                                                         *)
(* Python values are modelled as strings; None and NaN are both the value  *)
(* Null (pandas' isnull/dropna/fillna/count treat them alike).  A pandas   *)
(* DataFrame is a sequence of [index, row] pairs: dropna keeps the index   *)
(* labels of the rows it keeps.                                            *)
(***************************************************************************)
EXTENDS Integers, Sequences, FiniteSets, TLC

VARIABLES
    clock,    \* wall clock read by datetime.now(), in whole seconds
    bronze,   \* raw store: timestamp in the file name |-> file content
    silver,   \* silver dataset: (country, state) directory |-> its files
    gold,     \* gold artifact: [exists, rows]
    task,     \* the DAG task the scheduler runs next
    failed,   \* whether some task of some DAG run has raised
    input,    \* the argument handed to a function called on its own
    call      \* the last call: [fn, status, ret]

vars == <<clock, bronze, silver, gold, task, failed, input, call>>

(***************************************************************************)
(* Bounds of the model.                                                    *)
(***************************************************************************)
MaxLen == 3        \* records in an input of a function called on its own
MaxPages == 3      \* pages of a mocked API (the closing empty page included)
MaxPageLen == 2    \* records on one page of a mocked API
MaxSnapLen == 2    \* records the API holds during a pipeline run
MaxClock == 1      \* last second the wall clock reaches
MaxGoldRows == 2   \* rows of a gold artifact handed to the quality gate
MaxCount == 1      \* largest brewery_count in such an artifact
MaxHttpPages == 2  \* pages an API answers in a run with transport outcomes

(***************************************************************************)
(* Values.                                                                 *)
(***************************************************************************)
Null == "NULL"
NaN == Null

\* Python compares str by code point: upper case sorts before lower case.
CodePointOrder ==
    <<"California", "Ireland", "Texas", "United States", "micro", "nano", "unknown">>

StrLess(a, b) ==
    \E i, j \in 1..Len(CodePointOrder) :
        /\ CodePointOrder[i] = a
        /\ CodePointOrder[j] = b
        /\ i < j

Brewery(id, bt, country, state, city, lat, lon) ==
    [id |-> id, brewery_type |-> bt, country |-> country, state |-> state,
     city |-> city, latitude |-> lat, longitude |-> lon]

\* Brewery Records as the API returns them: any field may be null and the
\* coordinates are strings.
B1 == Brewery("1", "micro", "United States", "California", "Los Angeles", "34.05", "-118.24")
B2 == Brewery("2", "nano", "United States", "Texas", Null, "abc", Null)
B3 == Brewery(Null, "micro", "United States", "California", "Los Angeles", "34.05", "")
B4 == Brewery("4", Null, "United States", "California", Null, Null, Null)
B5 == Brewery("5", "micro", "United States", Null, "Austin", "30.26", "-97.74")
B6 == Brewery("6", "nano", Null, "Texas", "Austin", Null, Null)
B7 == Brewery("7", "micro", "Ireland", "Texas", Null, "30.26", "abc")

Breweries == {B1, B2, B3, B4, B5, B6, B7}

\* The records the API serves while the whole pipeline runs.
PipelineBreweries == {B1, B2, B3, B5}

SeqsUpTo(S, n) == UNION {[1..k -> S] : k \in 0..n}

RECURSIVE Flatten(_)
Flatten(ss) == IF ss = <<>> THEN <<>> ELSE Head(ss) \o Flatten(Tail(ss))

RECURSIVE SumSeq(_)
SumSeq(s) == IF s = <<>> THEN 0 ELSE Head(s) + SumSeq(Tail(s))

(***************************************************************************)
(* Bronze: ingest_api.py                                                   *)
(***************************************************************************)
\* What requests.get meets for one page: an exception of the transport, or
\* a response with a status code and a body that parses as a JSON list
\* (data) or does not.
Response(status_code, data) ==
    [kind |-> "response", status_code |-> status_code, json |-> TRUE, data |-> data]

Unparseable(status_code) ==
    [kind |-> "response", status_code |-> status_code, json |-> FALSE, data |-> <<>>]

Raised(exception) ==
    [kind |-> exception, status_code |-> 0, json |-> FALSE, data |-> <<>>]

\* An API that answers every request with 200 and the page asked for.
Served(pages) == [p \in 1..Len(pages) |-> Response(200, pages[p])]

\* requests.get(url, timeout=30): one GET for the page.
requests_get(api, page) == api[page]

\* response.raise_for_status(): HTTPError for a 4xx or 5xx status code, and
\* for no other.
raise_for_status(response) ==
    IF 400 <= response.status_code /\ response.status_code < 600
    THEN "HTTPError" ELSE "ok"

\* fetch_breweries(page): one GET; the parsed JSON list, or the exception
\* (each except clause logs and raises again).  gets lists the GETs issued.
fetch_breweries(api, page) ==
    LET response == requests_get(api, page)
    IN  IF response.kind # "response"
        THEN [status |-> response.kind, data |-> <<>>, gets |-> <<page>>]
        ELSE IF raise_for_status(response) # "ok"
        THEN [status |-> raise_for_status(response), data |-> <<>>, gets |-> <<page>>]
        ELSE IF ~response.json
        THEN [status |-> "JSONDecodeError", data |-> <<>>, gets |-> <<page>>]
        ELSE [status |-> "ok", data |-> response.data, gets |-> <<page>>]

\* Variant of FetchLoop: a page is put in front of the accumulated records.
RECURSIVE FetchLoopPrepend(_, _, _, _)
FetchLoopPrepend(api, page, all_breweries, requests) ==
    LET got == fetch_breweries(api, page)
    IN  IF got.status # "ok"
        THEN [status |-> got.status, data |-> <<>>, requests |-> requests \o got.gets]
        ELSE IF got.data = <<>>
        THEN [status |-> "ok", data |-> all_breweries, requests |-> requests \o got.gets]
        ELSE FetchLoopPrepend(api, page + 1, got.data \o all_breweries, requests \o got.gets)

\* Variant of FetchLoop: a failed page ends the loop as an empty page does
\* (except ...: break), and what was accumulated is returned.
RECURSIVE FetchLoopSwallow(_, _, _, _)
FetchLoopSwallow(api, page, all_breweries, requests) ==
    LET got == fetch_breweries(api, page)
    IN  IF got.status # "ok" \/ got.data = <<>>
        THEN [status |-> "ok", data |-> all_breweries, requests |-> requests \o got.gets]
        ELSE FetchLoopSwallow(api, page + 1, all_breweries \o got.data, requests \o got.gets)

\* The while loop of fetch_all_breweries, from the state (page,
\* all_breweries); requests lists the pages requested, in order.  An
\* exception of fetch_breweries leaves the loop and the function: nothing is
\* returned.
RECURSIVE FetchLoop(_, _, _, _)
FetchLoop(api, page, all_breweries, requests) ==
    LET got == fetch_breweries(api, page)
    IN  IF got.status # "ok"
        THEN [status |-> got.status, data |-> <<>>, requests |-> requests \o got.gets]
        ELSE IF got.data = <<>>
        THEN [status |-> "ok", data |-> all_breweries, requests |-> requests \o got.gets]
        ELSE FetchLoop(api, page + 1, all_breweries \o got.data, requests \o got.gets)

fetch_all_breweries(api) == FetchLoop(api, 1, <<>>, <<>>)

\* strftime("%Y%m%d_%H%M%S"): the file name holds the clock to the second,
\* zero-padded, so names order as the clock readings do.
Timestamp(now) == now

\* open(filepath, "w") creates the file or truncates the one of that name.
save_to_bronze(data, store, now) ==
    LET filepath == Timestamp(now)
    IN  [bronze |-> [ts \in DOMAIN store \cup {filepath} |->
                        IF ts = filepath THEN data ELSE store[ts]],
         ret |-> filepath]

\* Variant of ingest_breweries: without the check of the fetched data.
ingest_breweriesUnchecked(api, store, now) ==
    LET fetched == fetch_all_breweries(api)
        saved == save_to_bronze(fetched.data, store, now)
    IN  IF fetched.status # "ok"
        THEN [status |-> fetched.status, bronze |-> store, ret |-> Null]
        ELSE [status |-> "ok", bronze |-> saved.bronze, ret |-> saved.ret]

\* An exception of fetch_all_breweries leaves ingest_breweries before the
\* check and the save.
ingest_breweries(api, store, now) ==
    LET fetched == fetch_all_breweries(api)
    IN  IF fetched.status # "ok"
        THEN [status |-> fetched.status, bronze |-> store, ret |-> Null]
        ELSE IF fetched.data = <<>>
        THEN [status |-> "ValueError", bronze |-> store, ret |-> Null]
        ELSE LET saved == save_to_bronze(fetched.data, store, now)
             IN  [status |-> "ok", bronze |-> saved.bronze, ret |-> saved.ret]

(***************************************************************************)
(* Silver: transform.py                                                    *)
(***************************************************************************)
Max(S) == CHOOSE m \in S : \A x \in S : x <= m

\* sorted(glob(...))[-1]: the greatest file name.
load_latest_bronze(store) ==
    IF DOMAIN store = {}
    THEN [status |-> "FileNotFoundError", ret |-> <<>>]
    ELSE [status |-> "ok", ret |-> store[Max(DOMAIN store)]]

\* pd.DataFrame(data): a RangeIndex from 0 over the records.
DataFrame(data) == [i \in 1..Len(data) |-> [index |-> i - 1, row |-> data[i]]]

\* df.dropna(subset=[...]): keeps the rows with no null in the subset.
dropna(df, subset) ==
    SelectSeq(df, LAMBDA e : \A col \in subset : e.row[col] # Null)

\* df[col] = df[col].fillna(value) for each col of cols that df has.
fillna(df, cols, value) ==
    [i \in 1..Len(df) |->
        [df[i] EXCEPT !.row =
            [col \in DOMAIN df[i].row |->
                IF col \in cols /\ df[i].row[col] = Null
                THEN value ELSE df[i].row[col]]]]

\* The coordinate strings the API serves that parse as numbers.
Floats == ("34.05" :> "float(34.05)") @@ ("-118.24" :> "float(-118.24)")
          @@ ("30.26" :> "float(30.26)") @@ ("-97.74" :> "float(-97.74)")

\* pd.to_numeric(x, errors="coerce"): the number, NaN for what does not parse.
to_numeric(x) == IF x \in DOMAIN Floats THEN Floats[x] ELSE NaN

str_cols ==
    {"city", "country", "state_province", "postal_code", "phone",
     "website_url", "address_1", "address_2", "address_3"}

\* Variant of clean_and_transform: dropna() without subset, which drops a
\* row for a null in any column.
clean_and_transformDropAnyNull(data) ==
    LET df == DataFrame(data)
    IN  IF Len(df) = 0
        THEN df
        ELSE LET kept   == SelectSeq(df, LAMBDA e : \A col \in DOMAIN e.row : e.row[col] # Null)
                 filled == fillna(kept, str_cols, "unknown")
             IN  [i \in 1..Len(filled) |->
                    [filled[i] EXCEPT !.row =
                        [col \in DOMAIN filled[i].row |->
                            IF col \in {"latitude", "longitude"}
                            THEN to_numeric(filled[i].row[col])
                            ELSE filled[i].row[col]]]]

\* The column names of the records are lower case and trimmed already, so
\* the renaming of line 43 leaves them as they are.
clean_and_transform(data) ==
    LET df == DataFrame(data)
    IN  IF Len(df) = 0
        THEN df
        ELSE LET kept   == dropna(df, {"brewery_type", "state"})
                 filled == fillna(kept, str_cols, "unknown")
             IN  [i \in 1..Len(filled) |->
                    [filled[i] EXCEPT !.row =
                        [col \in DOMAIN filled[i].row |->
                            IF col \in {"latitude", "longitude"}
                            THEN to_numeric(filled[i].row[col])
                            ELSE filled[i].row[col]]]]

partition_cols == {"country", "state"}

PartitionKey(row) == <<row.country, row.state>>

\* The rows of df in one partition, as the file holds them: without the
\* partition columns (they are the directory names) and without the index.
PartitionFile(df, key) ==
    LET part == SelectSeq(df, LAMBDA e : PartitionKey(e.row) = key)
    IN  [i \in 1..Len(part) |->
            [col \in DOMAIN part[i].row \ partition_cols |-> part[i].row[col]]]

\* Variant of save_to_silver: existing_data_behavior="overwrite_or_ignore",
\* which adds the new file beside the files a directory holds.
save_to_silverAppend(df, dataset) ==
    LET keys == {PartitionKey(df[i].row) : i \in 1..Len(df)}
    IN  [key \in DOMAIN dataset \cup keys |->
            IF key \in keys
            THEN (IF key \in DOMAIN dataset THEN dataset[key] ELSE <<>>)
                    \o <<PartitionFile(df, key)>>
            ELSE dataset[key]]

\* Variant of save_to_silver: the whole dataset directory is removed before
\* the write.
save_to_silverReplaceAll(df, dataset) ==
    LET keys == {PartitionKey(df[i].row) : i \in 1..Len(df)}
    IN  [key \in keys |-> <<PartitionFile(df, key)>>]

\* to_parquet(partition_cols=..., existing_data_behavior="delete_matching"):
\* each directory that receives data is emptied first and gets one new file;
\* the other directories are not visited.  No rows, no directory.
save_to_silver(df, dataset) ==
    LET keys == {PartitionKey(df[i].row) : i \in 1..Len(df)}
    IN  [key \in DOMAIN dataset \cup keys |->
            IF key \in keys THEN <<PartitionFile(df, key)>> ELSE dataset[key]]

transform_breweries(store, dataset) ==
    LET loaded == load_latest_bronze(store)
    IN  IF loaded.status # "ok"
        THEN [status |-> loaded.status, silver |-> dataset]
        ELSE IF loaded.ret = <<>>
        THEN [status |-> "ValueError", silver |-> dataset]
        ELSE [status |-> "ok",
              silver |-> save_to_silver(clean_and_transform(loaded.ret), dataset)]

(***************************************************************************)
(* Gold: aggregate.py                                                      *)
(***************************************************************************)
\* Lexicographic order of tuples of strings of one length.
TupleLess(a, b) ==
    \E i \in 1..Len(a) :
        /\ \A j \in 1..(i - 1) : a[j] = b[j]
        /\ StrLess(a[i], b[i])

RECURSIVE SortTuples(_)
SortTuples(S) ==
    IF S = {}
    THEN <<>>
    ELSE LET least == CHOOSE x \in S : \A y \in S \ {x} : TupleLess(x, y)
         IN  <<least>> \o SortTuples(S \ {least})

\* The rows of the files of one directory, the partition columns read back
\* from the directory names (as Categorical, then astype(str)).
ReadPartition(dataset, key) ==
    LET rows == Flatten(dataset[key])
    IN  [i \in 1..Len(rows) |->
            [col \in DOMAIN rows[i] \cup partition_cols |->
                IF col = "country" THEN key[1]
                ELSE IF col = "state" THEN key[2]
                ELSE rows[i][col]]]

\* glob gives the files in no promised order; the model reads the
\* directories in the order of their names.
load_silver(dataset) ==
    IF DOMAIN dataset = {}
    THEN [status |-> "FileNotFoundError", ret |-> <<>>]
    ELSE LET dirs == SortTuples(DOMAIN dataset)
         IN  [status |-> "ok",
              ret |-> DataFrame(Flatten([d \in 1..Len(dirs) |->
                                            ReadPartition(dataset, dirs[d])]))]

GroupKey(row) == <<row.brewery_type, row.country, row.state>>

\* .agg(brewery_count=("id", "count")): count is the number of non-null
\* values of the column id within the group.
CountId(df, group) ==
    Cardinality({i \in 1..Len(df) : GroupKey(df[i].row) = group /\ df[i].row.id # Null})

\* groupby(..., observed=True) keeps the default dropna=True: a row with a
\* null in a group key belongs to no group.  sort_values orders the groups
\* by (country, state, brewery_type).
aggregate_breweries(df) ==
    IF Len(df) = 0
    THEN [status |-> "ValueError", ret |-> <<>>]
    ELSE LET groups == {GroupKey(df[i].row) : i \in {j \in 1..Len(df) :
                            \A c \in 1..3 : GroupKey(df[j].row)[c] # Null}}
             sorted == SortTuples({<<g[2], g[3], g[1]>> : g \in groups})
         IN  [status |-> "ok",
              ret |-> [i \in 1..Len(sorted) |->
                        [brewery_type |-> sorted[i][3],
                         country |-> sorted[i][1],
                         state |-> sorted[i][2],
                         brewery_count |->
                            CountId(df, <<sorted[i][3], sorted[i][1], sorted[i][2]>>)]]]

\* One file of a fixed name, written over the one before.
save_to_gold(rows) == [exists |-> TRUE, rows |-> rows]

aggregate_gold(dataset, artifact) ==
    LET loaded == load_silver(dataset)
    IN  IF loaded.status # "ok"
        THEN [status |-> loaded.status, gold |-> artifact]
        ELSE LET agg == aggregate_breweries(loaded.ret)
             IN  IF agg.status # "ok"
                 THEN [status |-> agg.status, gold |-> artifact]
                 ELSE [status |-> "ok", gold |-> save_to_gold(agg.ret)]

(***************************************************************************)
(* Quality gate: brewery_pipeline.py                                       *)
(***************************************************************************)
key_cols == {"brewery_type", "country", "state"}

\* Variant of run_quality_check: without the check of the total.
run_quality_checkNoTotal(artifact) ==
    IF ~artifact.exists
    THEN "FileNotFoundError"
    ELSE LET df == artifact.rows
         IN  IF Len(df) = 0 THEN "ValueError: gold layer is empty"
             ELSE IF \E col \in key_cols : \E i \in 1..Len(df) : df[i][col] = Null
             THEN "ValueError: null values in key columns"
             ELSE "ok"

\* The exception run_quality_check raises, or "ok".
run_quality_check(artifact) ==
    IF ~artifact.exists
    THEN "FileNotFoundError"
    ELSE LET df == artifact.rows
             total == SumSeq([i \in 1..Len(df) |-> df[i].brewery_count])
             null_counts ==
                [col \in key_cols |-> Cardinality({i \in 1..Len(df) : df[i][col] = Null})]
         IN  IF Len(df) = 0 THEN "ValueError: gold layer is empty"
             ELSE IF total = 0 THEN "ValueError: brewery_count sums to zero"
             ELSE IF \E col \in key_cols : null_counts[col] # 0
             THEN "ValueError: null values in key columns"
             ELSE "ok"

(***************************************************************************)
(* The DAG: bronze_task >> silver_task >> gold_task >> quality_task, run    *)
(* once per schedule tick with retries = 0.  A task that raises fails the  *)
(* run: its downstream tasks do not run and the next run starts over.      *)
(***************************************************************************)
NoStore == <<>>
NoGold == [exists |-> FALSE, rows |-> <<>>]
NoCall == [fn |-> "none", status |-> "none", ret |-> Null]

\* What the API holds during one pipeline run, as the pages it serves with
\* per_page = 200: all the records on page 1, then an empty page.
\* The API lists a brewery once.
PipelineApis ==
    {IF data = <<>> THEN <<data>> ELSE <<data, <<>>>> :
        data \in {s \in SeqsUpTo(PipelineBreweries, MaxSnapLen) :
                    \A i, j \in 1..Len(s) : s[i] = s[j] => i = j}}

Init ==
    /\ clock = 0
    /\ bronze = NoStore
    /\ silver = NoStore
    /\ gold = NoGold
    /\ task = "bronze_ingest_api"
    /\ failed = FALSE
    /\ input = <<>>
    /\ call = NoCall

\* The wall clock reaches the next second.
Tick ==
    /\ clock < MaxClock
    /\ clock' = clock + 1
    /\ UNCHANGED <<bronze, silver, gold, task, failed, input, call>>

Downstream(status, next) == IF status = "ok" THEN next ELSE "bronze_ingest_api"

\* schedule_interval = "@daily": a run starts long after the second in which
\* an earlier run wrote its snapshot.
run_bronze ==
    /\ task = "bronze_ingest_api"
    /\ Timestamp(clock) \notin DOMAIN bronze
    /\ \E api \in PipelineApis :
        LET r == ingest_breweries(Served(api), bronze, clock)
        IN  /\ bronze' = r.bronze
            /\ call' = [fn |-> "ingest_breweries", status |-> r.status, ret |-> r.ret]
            /\ task' = Downstream(r.status, "silver_transform_parquet")
            /\ failed' = (failed \/ r.status # "ok")
    /\ UNCHANGED <<clock, silver, gold, input>>

run_silver ==
    /\ task = "silver_transform_parquet"
    /\ LET r == transform_breweries(bronze, silver)
       IN  /\ silver' = r.silver
           /\ call' = [fn |-> "transform_breweries", status |-> r.status, ret |-> Null]
           /\ task' = Downstream(r.status, "gold_aggregate")
           /\ failed' = (failed \/ r.status # "ok")
    /\ UNCHANGED <<clock, bronze, gold, input>>

\* transform_breweries run once more after it succeeded (the module's
\* __main__, or the task cleared and run again), before the gold task.
rerun_silver ==
    /\ task = "gold_aggregate"
    /\ call.fn = "transform_breweries"
    /\ LET r == transform_breweries(bronze, silver)
       IN  /\ silver' = r.silver
           /\ call' = [fn |-> "transform_breweries", status |-> r.status, ret |-> "rerun"]
    /\ UNCHANGED <<clock, bronze, gold, task, failed, input>>

run_gold ==
    /\ task = "gold_aggregate"
    /\ LET r == aggregate_gold(silver, gold)
       IN  /\ gold' = r.gold
           /\ call' = [fn |-> "aggregate_gold", status |-> r.status, ret |-> Null]
           /\ task' = Downstream(r.status, "data_quality_check")
           /\ failed' = (failed \/ r.status # "ok")
    /\ UNCHANGED <<clock, bronze, silver, input>>

quality_task ==
    /\ task = "data_quality_check"
    /\ LET status == run_quality_check(gold)
       IN  /\ call' = [fn |-> "run_quality_check", status |-> status, ret |-> Null]
           /\ failed' = (failed \/ status # "ok")
    /\ task' = "bronze_ingest_api"
    /\ UNCHANGED <<clock, bronze, silver, gold, input>>

Next == Tick \/ run_bronze \/ run_silver \/ rerun_silver \/ run_gold \/ quality_task

Spec == Init /\ [][Next]_vars

(***************************************************************************)
(* Functions called on their own, as the tests call them: the argument is  *)
(* drawn in the initial state (or at the call) and the call is recorded.   *)
(***************************************************************************)
MockBreweries == {B1, B2}

Called(fn, status, ret) == [fn |-> fn, status |-> status, ret |-> ret]

\* ---- fetch_all_breweries over a mocked fetch_breweries ------------------
\* Pages as a mock serves them: any pages, then an empty page.
MockedApis ==
    {pages \o << <<>> >> :
        pages \in SeqsUpTo(SeqsUpTo(MockBreweries, MaxPageLen), MaxPages - 1)}

InitFetch ==
    /\ input \in MockedApis
    /\ clock = 0 /\ bronze = NoStore /\ silver = NoStore /\ gold = NoGold
    /\ task = "none" /\ failed = FALSE /\ call = NoCall

CallFetchAll ==
    /\ call.fn = "none"
    /\ LET r == fetch_all_breweries(Served(input))
       IN  call' = Called("fetch_all_breweries", r.status, r)
    /\ UNCHANGED <<clock, bronze, silver, gold, task, failed, input>>

NextFetch == CallFetchAll

SpecFetch == InitFetch /\ [][NextFetch]_vars

\* ---- the three bronze functions over a real requests.get ----------------
\* What one request can meet: the two transport exceptions, a 4xx and a 5xx
\* answer, a 3xx answer that is not a redirection to follow (with and
\* without records in its body), and 200 answers with an empty page, with a
\* page of one record and with a body that is not JSON.
TransportOutcomes ==
    { Raised("ConnectionError"), Raised("Timeout"),
      Unparseable(404), Response(503, <<B1>>),
      Response(300, <<B1>>), Response(300, <<>>),
      Response(200, <<>>), Response(200, <<B1>>), Unparseable(200) }

\* The request for this page ends the pagination: it raises or is empty.
EndsPagination(outcome) ==
    LET got == fetch_breweries(<<outcome>>, 1)
    IN  got.status # "ok" \/ got.data = <<>>

\* What the API answers page by page, up to an answer that ends the loop.
TransportApis ==
    {api \in SeqsUpTo(TransportOutcomes, MaxHttpPages) :
        api # <<>> /\ EndsPagination(api[Len(api)])}

\* The raw store before the call: empty, or one snapshot of an earlier
\* second.
PriorStores == {NoStore, save_to_bronze(<<B2>>, NoStore, 0).bronze}

InitTransport ==
    /\ \E api \in TransportApis : \E page \in 1..Len(api) :
        input = [api |-> api, page |-> page]
    /\ bronze \in PriorStores
    /\ clock = MaxClock /\ silver = NoStore /\ gold = NoGold
    /\ task = "none" /\ failed = FALSE /\ call = NoCall

CallFetchPage ==
    /\ call.fn = "none"
    /\ LET r == fetch_breweries(input.api, input.page)
       IN  call' = Called("fetch_breweries", r.status, r)
    /\ UNCHANGED <<clock, bronze, silver, gold, task, failed, input>>

CallFetchAllHttp ==
    /\ call.fn = "none"
    /\ LET r == fetch_all_breweries(input.api)
       IN  call' = Called("fetch_all_breweries", r.status, r)
    /\ UNCHANGED <<clock, bronze, silver, gold, task, failed, input>>

CallIngestHttp ==
    /\ call.fn = "none"
    /\ LET r == ingest_breweries(input.api, bronze, clock)
       IN  /\ bronze' = r.bronze
           /\ call' = Called("ingest_breweries", r.status, r.ret)
    /\ UNCHANGED <<clock, silver, gold, task, failed, input>>

NextTransport == CallFetchPage \/ CallFetchAllHttp \/ CallIngestHttp

SpecTransport == InitTransport /\ [][NextTransport]_vars

\* ---- the raw store: save_to_bronze and ingest_breweries -----------------
RawStoreApis ==
    {IF data = <<>> THEN <<data>> ELSE <<data, <<>>>> :
        data \in SeqsUpTo(MockBreweries, MaxSnapLen)}

InitRawStore ==
    /\ input = <<>>
    /\ clock = 0 /\ bronze = NoStore /\ silver = NoStore /\ gold = NoGold
    /\ task = "none" /\ failed = FALSE /\ call = NoCall

CallSaveToBronze ==
    /\ \E data \in SeqsUpTo(MockBreweries, MaxSnapLen) :
        LET r == save_to_bronze(data, bronze, clock)
        IN  /\ bronze' = r.bronze
            /\ input' = data
            /\ call' = Called("save_to_bronze", "ok", r.ret)
    /\ UNCHANGED <<clock, silver, gold, task, failed>>

CallIngest ==
    /\ \E api \in RawStoreApis :
        LET r == ingest_breweries(Served(api), bronze, clock)
        IN  /\ bronze' = r.bronze
            /\ input' = api
            /\ call' = Called("ingest_breweries", r.status, r.ret)
    /\ UNCHANGED <<clock, silver, gold, task, failed>>

NextRawStore == Tick \/ CallSaveToBronze \/ CallIngest

SpecRawStore == InitRawStore /\ [][NextRawStore]_vars

\* ---- clean_and_transform ------------------------------------------------
InitClean ==
    /\ input \in SeqsUpTo(Breweries, MaxLen)
    /\ clock = 0 /\ bronze = NoStore /\ silver = NoStore /\ gold = NoGold
    /\ task = "none" /\ failed = FALSE /\ call = NoCall

CallClean ==
    /\ call.fn = "none"
    /\ call' = Called("clean_and_transform", "ok", clean_and_transform(input))
    /\ UNCHANGED <<clock, bronze, silver, gold, task, failed, input>>

NextClean == CallClean

SpecClean == InitClean /\ [][NextClean]_vars

\* ---- aggregate_breweries ------------------------------------------------
\* The rows aggregate_breweries is handed: rows as the silver layer holds
\* them (cleaned; the id may be null).
SilverRows ==
    {clean_and_transform(<<b>>)[1].row :
        b \in {x \in Breweries : x.brewery_type # Null /\ x.state # Null}}

InitAggregate ==
    /\ input \in SeqsUpTo(SilverRows, MaxLen)
    /\ clock = 0 /\ bronze = NoStore /\ silver = NoStore /\ gold = NoGold
    /\ task = "none" /\ failed = FALSE /\ call = NoCall

CallAggregate ==
    /\ call.fn = "none"
    /\ LET r == aggregate_breweries(DataFrame(input))
       IN  call' = Called("aggregate_breweries", r.status, r.ret)
    /\ UNCHANGED <<clock, bronze, silver, gold, task, failed, input>>

NextAggregate == CallAggregate

SpecAggregate == InitAggregate /\ [][NextAggregate]_vars

\* ---- run_quality_check --------------------------------------------------
\* Gold artifacts of the four columns, whatever wrote them.
GoldRows ==
    [brewery_type : {Null, "micro"}, country : {Null, "United States"},
     state : {Null, "Texas"}, brewery_count : 0..MaxCount]

GoldArtifacts ==
    {NoGold} \cup {[exists |-> TRUE, rows |-> rows] : rows \in SeqsUpTo(GoldRows, MaxGoldRows)}

InitGate ==
    /\ gold \in GoldArtifacts
    /\ bronze \in {NoStore, save_to_bronze(<<B1, B2>>, NoStore, 0).bronze}
    /\ silver \in {NoStore, save_to_silver(clean_and_transform(<<B1, B2>>), NoStore)}
    /\ clock = 0 /\ input = <<>>
    /\ task = "data_quality_check" /\ failed = FALSE /\ call = NoCall

CallQualityCheck ==
    /\ call.fn = "none"
    /\ call' = Called("run_quality_check", run_quality_check(gold), Null)
    /\ UNCHANGED <<clock, bronze, silver, gold, task, failed, input>>

NextGate == CallQualityCheck

SpecGate == InitGate /\ [][NextGate]_vars

(***************************************************************************)
(* Claims.                                                                 *)
(***************************************************************************)
\* The index of the first empty page of a mocked API.
FirstEmptyPage(api) ==
    CHOOSE k \in 1..Len(api) : api[k] = <<>> /\ \A j \in 1..(k - 1) : api[j] # <<>>

\* C1 (SpecFetch): over pages closed by an empty page, fetch_all_breweries
\* returns the pages before the first empty one concatenated in order, with
\* every repeated record kept, asks for the pages 1, 2, 3, ... in that
\* order, and makes one call more than there are pages before the first
\* empty one.
C1_FetchAllConcatenatesPages ==
    call.fn = "fetch_all_breweries" =>
        LET n == FirstEmptyPage(input) - 1
        IN  /\ call.ret.data = Flatten(SubSeq(input, 1, n))
            /\ Len(call.ret.data) = SumSeq([k \in 1..n |-> Len(input[k])])
            /\ call.ret.requests = [k \in 1..(n + 1) |-> k]
            /\ Len(call.ret.requests) = n + 1

\* The test's case: two pages of the same two records, then an empty page.
C1_Witness ==
    /\ call.fn = "fetch_all_breweries"
    /\ input = << <<B1, B2>>, <<B1, B2>>, <<>> >>
    /\ call.ret.data = <<B1, B2, B1, B2>>
    /\ Len(call.ret.requests) = 3

\* C2 (SpecRawStore): a save never modifies, overwrites or deletes a
\* snapshot an earlier save wrote, two saves within one clock second
\* included.
C2_SnapshotsAreNeverOverwritten ==
    [][\A ts \in DOMAIN bronze : ts \in DOMAIN bronze' /\ bronze'[ts] = bronze[ts]]_vars

\* What one transform and one aggregate of the latest snapshot write into
\* empty storage.
FreshSilver(store) ==
    transform_breweries(store, NoStore).silver

FreshGold(store) ==
    aggregate_gold(FreshSilver(store), NoGold).gold

\* C3 (Spec): after complete pipeline runs (no task has raised), the silver
\* dataset and the gold artifact are what one transform and aggregate of the
\* latest snapshot into empty storage produce.
C3_SilverGoldFromLatestSnapshot ==
    (call.fn = "aggregate_gold" /\ call.status = "ok" /\ ~failed) =>
        /\ silver = FreshSilver(bronze)
        /\ gold = FreshGold(bronze)

\* C4 (Spec): the gold rows aggregate_gold has just written have
\* brewery_counts that sum to the number of rows of the silver dataset.
C4_CountsSumToSilverRows ==
    (call.fn = "aggregate_gold" /\ call.status = "ok") =>
        SumSeq([i \in 1..Len(gold.rows) |-> gold.rows[i].brewery_count])
            = Len(load_silver(silver).ret)

\* C5 (Spec): the Cleaner run a second time in a row on the same snapshot
\* leaves the silver dataset as the first run left it.
C5_RerunLeavesSilverUnchanged ==
    [][(/\ task = "gold_aggregate" /\ task' = "gold_aggregate"
        /\ call.fn = "transform_breweries"
        /\ call'.fn = "transform_breweries"
        /\ clock' = clock) => silver' = silver]_vars

\* The directories of the dataset that the latest snapshot has no row for.
StalePartitions ==
    IF DOMAIN bronze = {}
    THEN {}
    ELSE LET df == clean_and_transform(load_latest_bronze(bronze).ret)
         IN  DOMAIN silver \ {PartitionKey(df[i].row) : i \in 1..Len(df)}

\* A second run in a row, over a dataset that holds a directory of an
\* earlier snapshot too.
C5_Witness ==
    /\ call.fn = "transform_breweries"
    /\ call.status = "ok"
    /\ call.ret = "rerun"
    /\ StalePartitions # {}
    /\ DOMAIN silver \ StalePartitions # {}

\* C6 (Spec): a step of transform_breweries leaves every (country, state)
\* directory that the saved data has a row for holding exactly those rows,
\* in order, and every other directory as it was (absent ones stay absent).
C6_SaveReplacesOnlyMatchingPartitions ==
    [][(/\ task \in {"silver_transform_parquet", "gold_aggregate"}
        /\ call'.fn = "transform_breweries"
        /\ call'.status = "ok"
        /\ clock' = clock) =>
            LET df == clean_and_transform(load_latest_bronze(bronze).ret)
                rows == [i \in 1..Len(df) |-> df[i].row]
            IN  \A key \in DOMAIN silver \cup DOMAIN silver' \cup
                           {<<rows[i].country, rows[i].state>> : i \in 1..Len(rows)} :
                    LET new == SelectSeq(rows, LAMBDA r : r.country = key[1] /\ r.state = key[2])
                    IN  IF new # <<>>
                        THEN key \in DOMAIN silver' /\ ReadPartition(silver', key) = new
                        ELSE /\ key \in DOMAIN silver' <=> key \in DOMAIN silver
                             /\ key \in DOMAIN silver => silver'[key] = silver[key]]_vars

\* The DAG's silver task has run over a dataset of which it replaced one
\* directory and left another, of an earlier snapshot, alone.
C6_Witness ==
    /\ call.fn = "transform_breweries"
    /\ call.status = "ok"
    /\ call.ret = Null
    /\ task = "gold_aggregate"
    /\ StalePartitions # {}
    /\ \E key \in DOMAIN silver \ StalePartitions : Len(ReadPartition(silver, key)) = 2

\* C7 as stated (SpecRawStore): save_to_bronze called with an empty record
\* sequence fails with a validation error and writes no file, and so an
\* ingestion that fetched nothing leaves no new snapshot.
C7_SaveToBronzeRejectsEmpty ==
    [][clock' = clock =>
        /\ (call'.fn = "save_to_bronze" /\ input' = <<>>) =>
                (call'.status = "ValueError" /\ bronze' = bronze)
        /\ (call'.fn = "ingest_breweries" /\ fetch_all_breweries(Served(input')).data = <<>>) =>
                bronze' = bronze]_vars

\* C7 as amended (SpecRawStore): ingest_breweries, not save_to_bronze, rejects
\* the empty sequence: an ingestion whose fetch returns no record raises
\* ValueError and changes nothing in the raw store, while save_to_bronze
\* called with an empty sequence succeeds and writes a snapshot holding it.
C7_IngestRejectsEmptyFetch ==
    [][clock' = clock =>
        /\ (call'.fn = "ingest_breweries" /\ fetch_all_breweries(Served(input')).data = <<>>) =>
                (call'.status = "ValueError" /\ bronze' = bronze)
        /\ (call'.fn = "ingest_breweries" /\ fetch_all_breweries(Served(input')).data # <<>>) =>
                call'.status = "ok"
        /\ (call'.fn = "save_to_bronze" /\ input' = <<>>) =>
                /\ call'.status = "ok"
                /\ Timestamp(clock) \in DOMAIN bronze'
                /\ bronze'[Timestamp(clock)] = <<>>]_vars

\* An ingestion that fetched nothing has failed beside an earlier snapshot.
C7_Witness ==
    /\ call.fn = "ingest_breweries"
    /\ call.status = "ValueError"
    /\ input = << <<>> >>
    /\ DOMAIN bronze # {}
    /\ \A ts \in DOMAIN bronze : bronze[ts] # <<>>

\* C8 (SpecClean): on a non-empty input clean_and_transform returns exactly
\* the records whose brewery_type and state are both non-null, in input
\* order: the index labels of the output are those of the complete records,
\* ascending; each output row is the input record of its label (same id,
\* brewery_type and state) and has non-null brewery_type and state.
C8_CleanKeepsExactlyCompleteRecords ==
    (call.fn = "clean_and_transform" /\ input # <<>>) =>
        LET out == call.ret
            complete == {i \in 1..Len(input) :
                            input[i].brewery_type # Null /\ input[i].state # Null}
        IN  /\ {out[k].index + 1 : k \in 1..Len(out)} = complete
            /\ Len(out) = Cardinality(complete)
            /\ \A k \in 1..(Len(out) - 1) : out[k].index < out[k + 1].index
            /\ \A k \in 1..Len(out) :
                LET src == input[out[k].index + 1]
                IN  /\ out[k].row.brewery_type # Null
                    /\ out[k].row.state # Null
                    /\ out[k].row.id = src.id
                    /\ out[k].row.brewery_type = src.brewery_type
                    /\ out[k].row.state = src.state

\* A record was dropped, and one with an unparseable latitude and a null
\* city was kept, its latitude now NaN.
C8_Witness ==
    /\ call.fn = "clean_and_transform"
    /\ Len(call.ret) < Len(input)
    /\ \E k \in 1..Len(call.ret) :
        /\ input[call.ret[k].index + 1].latitude = "abc"
        /\ input[call.ret[k].index + 1].city = Null
        /\ call.ret[k].row.latitude = NaN
        /\ call.ret[k].row.city = "unknown"

\* C9 (SpecAggregate): on a non-empty input aggregate_breweries returns one
\* row for each (brewery_type, country, state) that occurs in the input and
\* no other, each with the number of input records of that combination as
\* its brewery_count, with exactly the four columns, sorted ascending by
\* (country, state, brewery_type).
C9_AggregateCountsEveryGroup ==
    (call.fn = "aggregate_breweries" /\ input # <<>>) =>
        LET agg == call.ret
            occurs == {GroupKey(input[i]) : i \in 1..Len(input)}
        IN  /\ call.status = "ok"
            /\ {GroupKey(agg[k]) : k \in 1..Len(agg)} = occurs
            /\ Len(agg) = Cardinality(occurs)
            /\ \A k \in 1..Len(agg) :
                /\ DOMAIN agg[k] = {"brewery_type", "country", "state", "brewery_count"}
                /\ agg[k].brewery_count =
                     Cardinality({i \in 1..Len(input) : GroupKey(input[i]) = GroupKey(agg[k])})
            /\ \A k \in 1..(Len(agg) - 1) :
                TupleLess(<<agg[k].country, agg[k].state, agg[k].brewery_type>>,
                          <<agg[k + 1].country, agg[k + 1].state, agg[k + 1].brewery_type>>)

\* What the claim lists as a failing artifact.
FailsTheGate(artifact) ==
    \/ ~artifact.exists
    \/ Len(artifact.rows) = 0
    \/ \A i \in 1..Len(artifact.rows) : artifact.rows[i].brewery_count = 0
    \/ \E i \in 1..Len(artifact.rows) :
        \/ artifact.rows[i].brewery_type = Null
        \/ artifact.rows[i].country = Null
        \/ artifact.rows[i].state = Null

\* C10 (SpecGate): run_quality_check raises exactly when the artifact is
\* missing, has no row, has a brewery_count total of zero or has a null in a
\* key column, passes every other artifact, and either way leaves the raw
\* store, the silver dataset and the gold artifact as they were.
C10_QualityGateVerdict ==
    /\ [](call.fn = "run_quality_check" =>
            (call.status # "ok" <=> FailsTheGate(gold)))
    /\ [][call'.fn = "run_quality_check" =>
            (bronze' = bronze /\ silver' = silver /\ gold' = gold)]_vars

\* The gate has failed an artifact whose only flaw is a null state in its
\* second row.
C10_Witness ==
    /\ call.fn = "run_quality_check"
    /\ call.status = "ValueError: null values in key columns"
    /\ Len(gold.rows) = 2
    /\ gold.rows[1].brewery_count = 1
    /\ gold.rows[2].state = Null
    /\ gold.rows[2].brewery_type # Null
    /\ gold.rows[2].country # Null
    /\ \A c \in key_cols : gold.rows[1][c] # Null
    /\ DOMAIN bronze # {}

\* The exception a failed request surfaces as.
ExceptionOf(outcome) ==
    IF outcome.kind = "response" THEN "HTTPError" ELSE outcome.kind

\* A transport failure, with an HTTP failure read as a 4xx or 5xx status.
FailsOn4xx5xx(outcome) ==
    \/ outcome.kind \in {"ConnectionError", "Timeout"}
    \/ outcome.kind = "response" /\ outcome.status_code \div 100 \in {4, 5}

\* A transport failure, with an HTTP failure read as any non-2xx status.
FailsOnNon2xx(outcome) ==
    \/ outcome.kind \in {"ConnectionError", "Timeout"}
    \/ outcome.kind = "response" /\ outcome.status_code \div 100 # 2

\* The page whose request is the first transport failure of a pagination:
\* every page before it was answered with a page of records.
FirstFailure(Fails(_), api) ==
    {k \in 1..Len(api) :
        /\ Fails(api[k])
        /\ \A j \in 1..(k - 1) :
            ~Fails(api[j]) /\ api[j].json /\ api[j].data # <<>>}

\* A call of one of the three bronze functions meets a transport failure:
\* fetch_breweries raises it after one request; fetch_all_breweries raises
\* it having requested the pages up to the failed one and no other, and
\* returns nothing; ingest_breweries raises it and writes no snapshot.
FailureIsNotRetried(Fails(_)) ==
    call.fn = "none" =>
        /\ (call'.fn = "fetch_breweries" /\ Fails(input.api[input.page])) =>
            /\ call'.status = ExceptionOf(input.api[input.page])
            /\ call'.ret.gets = <<input.page>>
            /\ call'.ret.data = <<>>
        /\ call'.fn = "fetch_all_breweries" =>
            \A k \in FirstFailure(Fails, input.api) :
                /\ call'.status = ExceptionOf(input.api[k])
                /\ call'.ret.requests = [j \in 1..k |-> j]
                /\ call'.ret.data = <<>>
        /\ call'.fn = "ingest_breweries" =>
            \A k \in FirstFailure(Fails, input.api) :
                /\ call'.status = ExceptionOf(input.api[k])
                /\ call'.ret = Null
                /\ bronze' = bronze

\* C11 (SpecTransport), as amended: on a connection error, a timeout or a
\* 4xx or 5xx status of a page request there is no retry: fetch_breweries
\* raises after a single request, fetch_all_breweries propagates that
\* failure unchanged, requests no further page and returns none of the pages
\* accumulated, and ingest_breweries writes no snapshot.
C11_TransportFailureIsNotRetried == [][FailureIsNotRetried(FailsOn4xx5xx)]_vars

\* ingest_breweries has raised the HTTPError of page 2, after a page of one
\* record, over a raw store that held a snapshot and still holds only it.
C11_Witness ==
    /\ call.fn = "ingest_breweries"
    /\ call.status = "HTTPError"
    /\ input.api = <<Response(200, <<B1>>), Response(503, <<B1>>)>>
    /\ bronze = save_to_bronze(<<B2>>, NoStore, 0).bronze

\* C11 (SpecTransport), as stated: the same with every non-2xx status
\* counted as a transport failure.
C11_Non2xxFailureIsNotRetried == [][FailureIsNotRetried(FailsOnNon2xx)]_vars

====
